---- MODULE Spec2Model ----
(***************************************************************************)
(* NM Legislative Bill Tracker (src/scraper.py).                           *)
(*                                                                         *)
(* A page is a sequence of markup elements in document order; a text is a  *)
(* sequence of string tokens (words, blanks, inline tags).  Python's None  *)
(* is the empty option <<>>, a value v is the option <<v>>.                *)
(*                                                                         *)
(* Spec      : main()'s scan of the two chambers and the final save.       *)
(* FairSpec  : Spec with the scheduling of a sequential program.           *)
(* ParseSpec : parse_bill_html / scrape_bill applied to bounded pages.     *)
(***************************************************************************)
EXTENDS Integers, Sequences, FiniteSets, TLC

VARIABLES
    pc,                  \* position of main(): "scan", "done"; "parse"/"parsed" in ParseSpec
    chamber,             \* loop variable of line 137
    bill_num,            \* line 142
    consecutive_misses,  \* line 143
    bills,               \* line 133: the collected records
    requested,           \* history: every fetch issued, [chamber, num, hit]
    response,            \* network outcome of the latest fetch
    file,                \* bills.csv: <<>> when not written, <<[header, rows]>> when written
    opens,               \* number of times bills.csv was opened for writing
    console,             \* final status line printed by main()
    html,                \* input of parse_bill_html (an option of a page)
    parsed               \* result of parse_bill_html (an option of a record)

vars == <<pc, chamber, bill_num, consecutive_misses, bills, requested, response, file, opens,
          console, html, parsed>>

(***************************************************************************)
(* Bounds of the model.                                                    *)
(***************************************************************************)
\* ceiling of the bill numbers scanned per chamber (the literal 500 of line 145, scaled)
MaxBillNum == 5
\* consecutive-miss threshold (the literal 50 of line 145, scaled)
MissLimit == 3
\* highest sponsor slot a page of the sponsor family may carry
MaxSlot == 21
\* elements of a page of the validity family
MaxElems == 2
\* rows of a table of the action family
MaxRows == 2

(***************************************************************************)
(* Program constants.                                                      *)
(***************************************************************************)
\* range(2, 20) of line 54
SPONSOR_FIRST == 2
SPONSOR_STOP == 20
\* {bill_num:04d} of line 106
PAD_WIDTH == 4

None == <<>>
Some(v) == <<v>>

(***************************************************************************)
(* Texts.                                                                  *)
(***************************************************************************)
Blank == " "
IsTag(tok) == tok \in {"<b>", "</b>", "<br/>"}

\* str.lower() on one token
LowerTok(tok) ==
    CASE tok = "Not" -> "not"
      [] tok = "NOT" -> "not"
      [] tok = "Found" -> "found"
      [] tok = "FOUND" -> "found"
      [] OTHER -> tok

lower(t) == [i \in 1..Len(t) |-> LowerTok(t[i])]

\* needle in hay (substring test)
Contains(hay, needle) ==
    \E i \in 0..(Len(hay) - Len(needle)) :
        \A j \in 1..Len(needle) : hay[i + j] = needle[j]

\* str.strip()
RECURSIVE lstrip(_)
lstrip(t) == IF t # <<>> /\ Head(t) = Blank THEN lstrip(Tail(t)) ELSE t

RECURSIVE rstrip(_)
rstrip(t) ==
    IF t # <<>> /\ t[Len(t)] = Blank THEN rstrip(SubSeq(t, 1, Len(t) - 1)) ELSE t

strip(t) == rstrip(lstrip(t))

\* re.sub(r'<[^>]+>', '', cell)
RECURSIVE remove_tags(_)
remove_tags(t) ==
    IF t = <<>> THEN <<>>
    ELSE IF IsTag(Head(t)) THEN remove_tags(Tail(t))
    ELSE <<Head(t)>> \o remove_tags(Tail(t))

\* the group ([^<]+): at least one character, none of them opening a tag
PlainNonEmpty(t) == t # <<>> /\ \A i \in 1..Len(t) : ~IsTag(t[i])

\* sep.join(names)
RECURSIVE join(_, _)
join(sep, names) ==
    IF names = <<>> THEN <<>>
    ELSE IF Len(names) = 1 THEN names[1]
    ELSE names[1] \o <<sep>> \o join(sep, Tail(names))

(***************************************************************************)
(* Markup elements.  tag "" is bare text between elements.  id/n is the    *)
(* id attribute: "linkSponsor" with n = 0 is ...linkSponsor, with n = 7    *)
(* ...linkSponsor7.  br: a <br/> precedes the text.  A row is a sequence   *)
(* of cells [th, content].                                                 *)
(***************************************************************************)
El(tag, id, n, br, text, cls, rows) ==
    [tag |-> tag, id |-> id, n |-> n, br |-> br, text |-> text, cls |-> cls, rows |-> rows]

Span(id, text) == El("span", id, 0, FALSE, text, "", <<>>)
Anchor(id, n, br, text) == El("a", id, n, br, text, "", <<>>)
Bare(text) == El("", "", 0, FALSE, text, "", <<>>)
Table(cls, rows) == El("table", "", 0, FALSE, <<>>, cls, rows)
Td(content) == [th |-> FALSE, content |-> content]
Th(content) == [th |-> TRUE, content |-> content]

\* the characters of a page, as far as the 'not found' test reads them
RECURSIVE CellsText(_)
CellsText(row) ==
    IF row = <<>> THEN <<>>
    ELSE <<"<td>">> \o Head(row).content \o <<"</td>">> \o CellsText(Tail(row))

RECURSIVE RowsText(_)
RowsText(rows) ==
    IF rows = <<>> THEN <<>>
    ELSE <<"<tr>">> \o CellsText(Head(rows)) \o <<"</tr>">> \o RowsText(Tail(rows))

ElemText(e) ==
    IF e.tag = "" THEN e.text
    ELSE IF e.tag = "table" THEN <<"<table>">> \o RowsText(e.rows) \o <<"</table>">>
    ELSE <<"<open>">> \o (IF e.br THEN <<"<br/>">> ELSE <<>>) \o e.text \o <<"</close>">>

RECURSIVE PageText(_)
PageText(page) ==
    IF page = <<>> THEN <<>> ELSE ElemText(Head(page)) \o PageText(Tail(page))

NOT_FOUND == <<"not", " ", "found">>

(***************************************************************************)
(* re.search / re.findall of parse_bill_html.                              *)
(***************************************************************************)
\* id="MainContent_formViewLegislation_<id>"[^>]*>([^<]+)</span>
MatchesSpan(e, id) ==
    e.tag = "span" /\ e.id = id /\ e.n = 0 /\ ~e.br /\ PlainNonEmpty(e.text)

\* id="MainContent_formViewLegislation_<id>"[^>]*>([^<]+)</a>
MatchesAnchor(e, id) ==
    e.tag = "a" /\ e.id = id /\ e.n = 0 /\ ~e.br /\ PlainNonEmpty(e.text)

\* id="MainContent_formViewLegislation_linkSponsor{i}"[^>]*>(?:<br/>)?([^<]+)</a>
MatchesCoSponsor(e, i) ==
    e.tag = "a" /\ e.id = "linkSponsor" /\ e.n = i /\ PlainNonEmpty(e.text)

\* re.search takes the leftmost match: the least of the matching positions, 0 when
\* there is none
FirstIndex(S) == IF S = {} THEN 0 ELSE CHOOSE i \in S : \A j \in S : i <= j

\* m.group(1).strip() if m else ""
SearchSpan(page, id) ==
    LET i == FirstIndex({x \in 1..Len(page) : MatchesSpan(page[x], id)})
    IN  IF i = 0 THEN <<>> ELSE strip(page[i].text)

SearchAnchor(page, id) ==
    LET i == FirstIndex({x \in 1..Len(page) : MatchesAnchor(page[x], id)})
    IN  IF i = 0 THEN None ELSE Some(strip(page[i].text))

SearchCoSponsor(page, i) ==
    LET k == FirstIndex({x \in 1..Len(page) : MatchesCoSponsor(page[x], i)})
    IN  IF k = 0 THEN None ELSE Some(strip(page[k].text))

(***************************************************************************)
(* parse_bill_html                                                         *)
(***************************************************************************)
\* lines 47-60: the primary sponsor, then slots 2, 3, ... until one is missing
RECURSIVE CoSponsors(_, _)
CoSponsors(page, i) ==
    IF i >= SPONSOR_STOP THEN <<>>
    ELSE LET m == SearchCoSponsor(page, i)
         IN  IF m = None THEN <<>> ELSE <<m[1]>> \o CoSponsors(page, i + 1)

ExtractSponsors(page) ==
    LET m == SearchAnchor(page, "linkSponsor")
    IN  (IF m = None THEN <<>> ELSE <<m[1]>>) \o CoSponsors(page, SPONSOR_FIRST)

\* <table[^>]*class="[^"]*table[^"]*"[^>]*>(.*?)</table>
ClassHasTable(cls) == cls \in {"table", "table table-striped", "datatable"}

ActionTables(page) ==
    LET P(e) == e.tag = "table" /\ ClassHasTable(e.cls)
    IN  SelectSeq(page, P)

\* <td[^>]*>(.*?)</td> within one row
TdCells(row) ==
    LET P(c) == ~c.th
    IN  SelectSeq(row, P)

\* re.sub(r'<[^>]+>', '', cell).strip()
CleanCell(cell) == strip(remove_tags(cell.content))

\* calendar order of the dates the action pages carry (0: not a date)
DateRank(t) ==
    CASE t = <<"01/05">> -> 1
      [] t = <<"01/20">> -> 2
      [] t = <<"02/01">> -> 3
      [] t = <<"03/09">> -> 4
      [] t = <<"03/10">> -> 5
      [] OTHER -> 0

TableStepLatestDate(acc, table) ==
    IF Len(table.rows) > 1
    THEN LET cells == TdCells(table.rows[Len(table.rows)])
         IN  IF Len(cells) >= 1 /\ DateRank(CleanCell(cells[1])) > DateRank(acc.last_date)
             THEN [last_date |-> CleanCell(cells[1]),
                   status |-> IF Len(cells) >= 2 THEN CleanCell(cells[2]) ELSE acc.status]
             ELSE acc
    ELSE acc

\* lines 78-93, one iteration of the loop over the tables; acc = [last_date, status]
TableStep(acc, table) ==
    IF Len(table.rows) > 1
    THEN LET cells == TdCells(table.rows[Len(table.rows)])
         IN  IF Len(cells) >= 1
             THEN [last_date |-> CleanCell(cells[1]),
                   status |-> IF Len(cells) >= 2 THEN CleanCell(cells[2]) ELSE acc.status]
             ELSE acc
    ELSE acc

RECURSIVE ScanTables(_, _)
ScanTables(acc, tables) ==
    IF tables = <<>> THEN acc
    ELSE ScanTables(TableStep(acc, Head(tables)), Tail(tables))

\* lines 69-93
ExtractLastAction(page) ==
    ScanTables([last_date |-> <<>>, status |-> <<>>], ActionTables(page))

\* line 31
HasNotFound(page) == Contains(lower(PageText(page)), NOT_FOUND)

\* lines 39-40
ExtractTitleUnstripped(page) ==
    LET i == FirstIndex({x \in 1..Len(page) : MatchesSpan(page[x], "lblTitle")})
    IN  IF i = 0 THEN <<>> ELSE page[i].text
ExtractTitle(page) == SearchSpan(page, "lblTitle")

\* lines 25-102; h is None or Some(page)
parse_bill_html(h) ==
    IF h = None \/ h[1] = <<>> THEN None
    ELSE IF HasNotFound(h[1]) THEN None
    ELSE LET page == h[1]
             title == ExtractTitle(page)
             loc == SearchAnchor(page, "linkLocation")
             act == ExtractLastAction(page)
         IN  IF title = <<>> THEN None
             ELSE Some([bill_id |-> SearchSpan(page, "lblBillID"),
                        title |-> title,
                        sponsors |-> join("; ", ExtractSponsors(page)),
                        status |-> act.status,
                        location |-> IF loc = None THEN <<>> ELSE loc[1],
                        last_date |-> act.last_date])

(***************************************************************************)
(* fetch_url and scrape_bill.  A network outcome is [kind, body]: kind     *)
(* "ok" with the decoded body, or the exception urlopen/read/decode raised.*)
(***************************************************************************)
\* what a call hands back: a value, or an exception that leaves the function
Returned(v) == [raised |-> FALSE, value |-> v]
Raised == [raised |-> TRUE, value |-> None]

\* line 21, except Exception: URLError and socket.timeout are OSErrors, UnicodeDecodeError
\* is a ValueError; all of them derive from Exception
CaughtUrlErrorOnly(kind) == kind = "URLError"
Caught(kind) == kind \in {"URLError", "timeout", "UnicodeDecodeError"}

\* lines 13-23
fetch_url(outcome) ==
    IF outcome.kind = "ok" THEN Returned(Some(outcome.body))
    ELSE IF Caught(outcome.kind) THEN Returned(None)
    ELSE Raised

Digit(d) == <<"0", "1", "2", "3", "4", "5", "6", "7", "8", "9">>[d + 1]

\* str(n) for n >= 0
RECURSIVE Decimal(_)
Decimal(n) == IF n < 10 THEN <<Digit(n)>> ELSE Decimal(n \div 10) \o <<Digit(n % 10)>>

\* f"{n:04d}"
ZeroPad(n) ==
    LET d == Decimal(n)
    IN  [i \in 1..(IF Len(d) < PAD_WIDTH THEN PAD_WIDTH - Len(d) ELSE 0) |-> "0"] \o d

\* line 106
FormatBillId(ch, n) == <<ch, "B">> \o ZeroPad(n)

\* line 107
BillUrl(ch, n) ==
    <<"https://www.nmlegis.gov/Legislation/Legislation?chamber=", ch,
      "&legType=B&legNo=">> \o Decimal(n) \o <<"&year=", "26">>

\* lines 104-125
scrape_bill(ch, n, outcome) ==
    LET r == fetch_url(outcome)
        h == r.value
    IN  IF r.raised THEN Raised
        ELSE IF h = None \/ h[1] = <<>> THEN Returned(None)
        ELSE LET bill_data == parse_bill_html(h)
             IN  IF bill_data = None THEN Returned(None)
                 ELSE Returned(Some(
                          [Bill_Number |-> IF bill_data[1].bill_id # <<>>
                                           THEN bill_data[1].bill_id
                                           ELSE FormatBillId(ch, n),
                           Title |-> bill_data[1].title,
                           Sponsors |-> bill_data[1].sponsors,
                           Status |-> bill_data[1].status,
                           Location |-> bill_data[1].location,
                           Last_Action_Date |-> bill_data[1].last_date,
                           URL |-> BillUrl(ch, n)]))

(***************************************************************************)
(* The pages the site may serve during a scan and the ways a fetch fails.  *)
(***************************************************************************)
TitleSpan == Span("lblTitle", <<" ", "Water", " ", "Act", " ">>)

FullPage ==
    <<Span("lblBillID", <<"HB", " ", "1">>),
      TitleSpan,
      Anchor("linkSponsor", 0, FALSE, <<"Ann">>),
      Anchor("linkSponsor", 2, TRUE, <<"Bob">>),
      Anchor("linkLocation", 0, FALSE, <<"HJC">>),
      Table("table table-striped",
            <<<<Th(<<"Date">>), Th(<<"Action">>)>>,
              <<Td(<<"01/20">>), Td(<<"Referred">>)>>>>)>>

ScanPages ==
    { <<>>,                                              \* an empty body
      <<Bare(<<"Bill", " ", "Not", " ", "Found">>)>>,    \* the site's page for no bill
      <<Span("lblBillID", <<"HB", " ", "1">>)>>,         \* a page with no title
      FullPage }                                         \* a bill page

Failures == {"URLError", "timeout", "UnicodeDecodeError"}

Outcomes ==
    {[kind |-> "ok", body |-> p] : p \in ScanPages}
        \cup {[kind |-> k, body |-> <<>>] : k \in Failures}

NoOutcome == [kind |-> "none", body |-> <<>>]

Chambers == <<"H", "S">>

\* fieldnames=bills[0].keys(), line 164
CsvHeader ==
    <<"Bill Number", "Title", "Sponsors", "Status", "Current Location/Referral",
      "Last Action Date", "URL">>

\* a bills.csv left by an earlier run
OldFile == [header |-> CsvHeader, rows |-> <<>>]

(***************************************************************************)
(* main                                                                    *)
(***************************************************************************)
\* line 145
LoopCondOffByOne(n, misses) == n <= MaxBillNum /\ misses <= MissLimit
LoopCond(n, misses) == n <= MaxBillNum /\ misses < MissLimit

\* lines 148-155: the counter after one identifier; bill_data is scrape_bill's result
NextMissesNoReset(misses, bill_data) == IF bill_data # None THEN misses ELSE misses + 1
NextMisses(misses, bill_data) == IF bill_data # None THEN 0 ELSE misses + 1

\* lines 148-149
NextBillsPrepend(bs, bill_data) == IF bill_data # None THEN <<bill_data[1]>> \o bs ELSE bs
NextBills(bs, bill_data) == IF bill_data # None THEN Append(bs, bill_data[1]) ELSE bs

\* line 157
NextBillNumForgotten(n) == n
NextBillNum(n) == n + 1

Init ==
    /\ pc = "scan"
    /\ chamber = 1
    /\ bill_num = 1
    /\ consecutive_misses = 0
    /\ bills = <<>>
    /\ requested = <<>>
    /\ response = NoOutcome
    /\ file \in {None, Some(OldFile)}
    /\ opens = 0
    /\ console = ""
    /\ html = None
    /\ parsed = None

\* lines 145-158: one iteration of the while loop; an exception that scrape_bill
\* lets through ends main()
ScrapeNext ==
    /\ pc = "scan"
    /\ LoopCond(bill_num, consecutive_misses)
    /\ \E o \in Outcomes :
        \E r \in {scrape_bill(Chambers[chamber], bill_num, o)} :
          LET bill_data == r.value
          IN  /\ response' = o
              /\ requested' = Append(requested,
                                     [chamber |-> Chambers[chamber], num |-> bill_num,
                                      hit |-> bill_data # None])
              /\ IF r.raised
                 THEN /\ pc' = "crashed"
                      /\ UNCHANGED <<bills, consecutive_misses, bill_num>>
                 ELSE /\ bills' = NextBills(bills, bill_data)
                      /\ consecutive_misses' = NextMisses(consecutive_misses, bill_data)
                      /\ bill_num' = NextBillNum(bill_num)
                      /\ pc' = pc
    /\ UNCHANGED <<chamber, file, opens, console, html, parsed>>

\* lines 137-143: the while loop ends and the for loop takes the next chamber
NextChamber ==
    /\ pc = "scan"
    /\ ~LoopCond(bill_num, consecutive_misses)
    /\ chamber < Len(Chambers)
    /\ chamber' = chamber + 1
    /\ bill_num' = 1
    /\ consecutive_misses' = 0
    /\ UNCHANGED <<pc, bills, requested, response, file, opens, console, html, parsed>>

\* line 161
ShouldSaveAlways(bs) == TRUE
ShouldSave(bs) == bs # <<>>

\* lines 161-180
SaveCsv ==
    /\ pc = "scan"
    /\ ~LoopCond(bill_num, consecutive_misses)
    /\ chamber = Len(Chambers)
    /\ ShouldSave(bills)
    /\ file' = Some([header |-> CsvHeader, rows |-> bills])
    /\ opens' = opens + 1
    /\ console' = "SUCCESS"
    /\ pc' = "done"
    /\ UNCHANGED <<chamber, bill_num, consecutive_misses, bills, requested, response,
                   html, parsed>>

\* lines 181-182
ReportNone ==
    /\ pc = "scan"
    /\ ~LoopCond(bill_num, consecutive_misses)
    /\ chamber = Len(Chambers)
    /\ ~ShouldSave(bills)
    /\ console' = "No bills found."
    /\ pc' = "done"
    /\ UNCHANGED <<chamber, bill_num, consecutive_misses, bills, requested, response,
                   file, opens, html, parsed>>

Next == ScrapeNext \/ NextChamber \/ SaveCsv \/ ReportNone

Spec == Init /\ [][Next]_vars

\* main is one sequential thread: whichever step is enabled is taken
FairSpec == Spec /\ WF_vars(Next)

(***************************************************************************)
(* parse_bill_html on bounded pages: three families of inputs.             *)
(***************************************************************************)
\* validity: every page of at most MaxElems of these elements
ValidityElems ==
    { TitleSpan,
      Span("lblTitle", <<"Act">>),
      Span("lblTitle", <<" ">>),                         \* blank title
      Span("lblTitle", <<>>),                            \* empty title element
      Span("lblTitle", <<"<b>", "Act", "</b>">>),        \* title wrapped in markup
      Span("lblTitle", <<"Lost", " ", "Not", " ", "Found">>),
      El("span", "lblTitle", 0, TRUE, <<"Act">>, "", <<>>),
      Anchor("lblTitle", 0, FALSE, <<"Act">>),           \* closed by </a>, not </span>
      Span("lblBillID", <<"SB", " ", "7">>),
      Bare(<<"Bill", " ", "not", " ", "found">>),
      Bare(<<"NOT", " ", "FOUND">>),
      Bare(<<"not">>),
      Bare(<<" ", "found">>) }

RECURSIVE SeqsUpTo(_, _)
SeqsUpTo(S, n) ==
    IF n = 0 THEN {<<>>}
    ELSE LET shorter == SeqsUpTo(S, n - 1)
         IN  shorter \cup {Append(q, x) : q \in shorter, x \in S}

ValidityPages == SeqsUpTo(ValidityElems, MaxElems)

\* sponsors: slots 1..k present but for one gap g (0: no gap), in ascending or
\* descending document order, co-sponsor names with or without a leading <br/>
SponsorName(i) == <<" ", "Rep">> \o Decimal(i) \o <<" ">>

SponsorAnchor(i, br) ==
    IF i = 1 THEN Anchor("linkSponsor", 0, FALSE, SponsorName(1))
    ELSE Anchor("linkSponsor", i, br, SponsorName(i))

RECURSIVE SponsorAnchors(_, _, _, _)
SponsorAnchors(i, k, g, br) ==
    IF i > k THEN <<>>
    ELSE (IF i = g THEN <<>> ELSE <<SponsorAnchor(i, br)>>) \o SponsorAnchors(i + 1, k, g, br)

Reverse(q) == [i \in 1..Len(q) |-> q[Len(q) + 1 - i]]

SponsorPages ==
    {<<TitleSpan>> \o (IF up THEN SponsorAnchors(1, k, g, br)
                             ELSE Reverse(SponsorAnchors(1, k, g, br))) :
        k \in 0..MaxSlot, g \in 0..MaxSlot, br \in BOOLEAN, up \in BOOLEAN}

\* actions: one or two tables of at most MaxRows rows each
ActionRows ==
    { <<Th(<<"Date">>), Th(<<"Action">>)>>,                          \* header, no <td>
      <<Td(<<"02/01">>)>>,                                           \* date alone
      <<Td(<<"<b>", "01/05", "</b>">>), Td(<<" ", "Passed", " ">>)>>,
      <<Td(<<"01/20">>), Td(<<"Referred">>), Td(<<"HJC">>)>> }

ActionTableSet ==
    {Table("table table-striped", rows) : rows \in SeqsUpTo(ActionRows, MaxRows)}
        \cup {Table("grid", <<<<Td(<<"03/09">>), Td(<<"Vetoed">>)>>,
                              <<Td(<<"03/10">>), Td(<<"Signed">>)>>>>)}

ActionPages ==
    {<<TitleSpan, t>> : t \in ActionTableSet}
        \cup {<<TitleSpan, t1, t2>> : t1 \in ActionTableSet, t2 \in ActionTableSet}

ParseInputs ==
    {None} \cup {Some(p) : p \in ValidityPages \cup SponsorPages \cup ActionPages}

ParseInit ==
    /\ pc = "parse"
    /\ html \in ParseInputs
    /\ parsed = None
    /\ chamber = 1
    /\ bill_num = 1
    /\ consecutive_misses = 0
    /\ bills = <<>>
    /\ requested = <<>>
    /\ response = NoOutcome
    /\ file = None
    /\ opens = 0
    /\ console = ""

\* line 113: bill_data = parse_bill_html(html)
Parse ==
    /\ pc = "parse"
    /\ parsed' = parse_bill_html(html)
    /\ pc' = "parsed"
    /\ UNCHANGED <<chamber, bill_num, consecutive_misses, bills, requested, response,
                   file, opens, console, html>>

ParseNext == Parse

ParseSpec == ParseInit /\ [][ParseNext]_vars

(***************************************************************************)
(* Properties of the scan (Spec, FairSpec).                                *)
(***************************************************************************)
\* the fetches issued for one chamber, in the order they were issued
ChamberLog(ch) ==
    LET P(e) == e.chamber = ch
    IN  SelectSeq(requested, P)

\* the misses at the end of a log, back to its most recent hit
RECURSIVE TrailingMisses(_)
TrailingMisses(log) ==
    IF log = <<>> \/ log[Len(log)].hit THEN 0
    ELSE 1 + TrailingMisses(SubSeq(log, 1, Len(log) - 1))

\* position of the last hit of a log, 0 when it has none
LastHit(log) ==
    IF \E i \in 1..Len(log) : log[i].hit
    THEN CHOOSE i \in 1..Len(log) : log[i].hit /\ \A j \in (i + 1)..Len(log) : ~log[j].hit
    ELSE 0

Min(a, b) == IF a < b THEN a ELSE b

\* the scan of a chamber is over
Finished(ch) == (ch = "H" /\ chamber = 2) \/ pc = "done"

Fetching == requested' # requested

C1_CounterCounts ==
    consecutive_misses = TrailingMisses(ChamberLog(Chambers[chamber]))

C1_Step ==
    Fetching =>
        /\ bill_num <= MaxBillNum
        /\ consecutive_misses < MissLimit
        /\ consecutive_misses' =
              IF requested'[Len(requested')].hit THEN 0 ELSE consecutive_misses + 1

\* C1: during the scan of a chamber the consecutive-miss counter is set to 0 after
\* every identifier that yields a record and grows by 1 after every identifier that
\* yields none, so it always equals the number of misses since the chamber's most
\* recent hit (or since its scan began); an identifier is fetched only while the bill
\* number is at most the ceiling and the counter is below the threshold.
C1_MissCounter == [](C1_CounterCounts) /\ [][C1_Step]_vars

\* C1 witness: in the Senate scan, a miss, later a hit, and misses counted since it
C1_Witness ==
    /\ chamber = 2
    /\ pc = "scan"
    /\ consecutive_misses > 0
    /\ LET log == ChamberLog("S")
       IN  \E i, j \in 1..Len(log) :
              i < j /\ ~log[i].hit /\ log[j].hit /\ consecutive_misses = Len(log) - j

\* C2: for each chamber on its own (the Senate scan starts again at number 1 with the
\* counter at 0), if p is the chamber's last hit and only misses follow it, the last
\* identifier fetched for the chamber is min(ceiling, p + threshold) and the
\* identifiers fetched are 1, 2, ... up to it: nothing beyond it is requested.
C2_StopsAfterLastHit ==
    \A c \in 1..Len(Chambers) :
        LET log == ChamberLog(Chambers[c])
            p == LastHit(log)
        IN  /\ \A i \in 1..Len(log) : log[i].num = i
            /\ (Finished(Chambers[c]) /\ p > 0) =>
                  Len(log) = Min(MaxBillNum, p + MissLimit)

\* C2 witness: the House scan ran to the ceiling with a hit on its last number, the
\* Senate scan stopped before the ceiling, MissLimit misses after its only hit
C2_Witness ==
    /\ pc = "done"
    /\ Len(ChamberLog("H")) = MaxBillNum
    /\ LastHit(ChamberLog("H")) = MaxBillNum
    /\ LastHit(ChamberLog("S")) = 1
    /\ Len(ChamberLog("S")) = 1 + MissLimit
    /\ Len(ChamberLog("S")) < MaxBillNum

Hits ==
    LET P(e) == e.hit
    IN  SelectSeq(requested, P)

\* House before Senate, ascending bill number within a chamber
Before(a, b) ==
    \/ a.chamber = "H" /\ b.chamber = "S"
    \/ a.chamber = b.chamber /\ a.num < b.num

C3_Rows ==
    /\ Len(bills) = Len(Hits)
    /\ \A i \in 1..Len(bills) : bills[i].URL = BillUrl(Hits[i].chamber, Hits[i].num)
    /\ \A i, j \in 1..Len(Hits) : i < j => Before(Hits[i], Hits[j])
    /\ opens > 0 => file = Some([header |-> CsvHeader, rows |-> bills])

C3_Step == Len(bills') >= Len(bills) /\ SubSeq(bills', 1, Len(bills)) = bills

\* C3: the collected records, and the rows of the file written from them, are one row
\* per fetched identifier whose page yields a record and nothing else, in discovery
\* order (House before Senate, ascending bill number within a chamber); a record once
\* appended is never modified, moved or removed.
C3_DiscoveryOrder == [](C3_Rows) /\ [][C3_Step]_vars

\* C3 witness: records for House 1, House 3 and Senate 2 only, written in that order
C3_Witness ==
    /\ pc = "done"
    /\ opens = 1
    /\ Len(file[1].rows) = 3
    /\ file[1].rows[1].URL = BillUrl("H", 1)
    /\ file[1].rows[2].URL = BillUrl("H", 3)
    /\ file[1].rows[3].URL = BillUrl("S", 2)

ScanOver == chamber = Len(Chambers) /\ (bill_num > MaxBillNum \/ consecutive_misses >= MissLimit)

C7_Final ==
    /\ opens <= 1
    /\ pc = "scan" => opens = 0
    /\ pc = "done" =>
          /\ (opens = 1) <=> (bills # <<>>)
          /\ bills # <<>> => file = Some([header |-> CsvHeader, rows |-> bills])
          /\ bills = <<>> => console = "No bills found."

C7_Step ==
    /\ (file' # file \/ opens' # opens) =>
          /\ opens' = opens + 1
          /\ bills # <<>>
          /\ ScanOver
          /\ pc' = "done"
    /\ Fetching => opens = 0

\* C7: bills.csv is written if and only if the collection is non-empty when the scan of
\* both chambers is over; when it is empty the file is neither created nor overwritten
\* and "No bills found." is reported; the file is written at most once, after the last
\* fetch of the last chamber.
C7_WriteIffNonEmpty == [](C7_Final) /\ [][C7_Step]_vars

\* C7 witness: a run that found nothing leaves the file of an earlier run as it was
C7_Witness ==
    /\ pc = "done"
    /\ bills = <<>>
    /\ opens = 0
    /\ file = Some(OldFile)
    /\ console = "No bills found."
    /\ Len(requested) = 2 * MissLimit

NoRepeat ==
    \A i, j \in 1..Len(requested) :
        i < j => <<requested[i].chamber, requested[i].num>>
                    # <<requested[j].chamber, requested[j].num>>

C8_Step ==
    (Fetching /\ response'.kind \in Failures) =>
        /\ pc' = "scan"
        /\ bills' = bills
        /\ ~requested'[Len(requested')].hit
        /\ consecutive_misses' = consecutive_misses + 1
        /\ bill_num' = bill_num + 1

\* C8: a network, timeout or decoding failure never ends the run: the identifier counts
\* as one miss (no record appended, counter incremented), the scan moves on to the next
\* identifier, and no chamber/number pair is requested twice in a run.
C8_FailureIsAMiss == [](pc # "crashed" /\ NoRepeat) /\ [][C8_Step]_vars

\* C8 witness: after a decoding failure on House 2 the scan is about to fetch House 3
C8_Witness ==
    /\ pc = "scan"
    /\ response.kind = "UnicodeDecodeError"
    /\ chamber = 1
    /\ bill_num = 3
    /\ bills # <<>>
    /\ consecutive_misses = 1
    /\ bill_num <= MaxBillNum /\ consecutive_misses < MissLimit

C10_Prefix ==
    /\ \A c \in 1..Len(Chambers) :
          LET log == ChamberLog(Chambers[c])
          IN  Len(log) <= MaxBillNum /\ \A i \in 1..Len(log) : log[i].num = i
    /\ Len(requested) <= 2 * MaxBillNum

\* C10: every run terminates: per chamber the identifiers fetched are a contiguous
\* prefix 1..m of the bill numbers with m at most the ceiling, so at most twice the
\* ceiling fetches are issued whatever the pattern of hits and misses, and the run
\* reaches the write-or-report step.
C10_Terminates == <>(pc = "done") /\ [](C10_Prefix)

\* C10 witness: hits kept resetting the counter, both chambers ran to the ceiling
C10_Witness ==
    /\ pc = "done"
    /\ Len(requested) = 2 * MaxBillNum
    /\ Len(Hits) < Len(requested) - 2 * MissLimit + 2

(***************************************************************************)
(* Properties of parse_bill_html (ParseSpec).                              *)
(***************************************************************************)
\* the page text holds 'not found' in any mix of cases
Marker(page) == Contains(lower(PageText(page)), NOT_FOUND)

\* a title element: one the title pattern matches
IsTitle(e) == MatchesSpan(e, "lblTitle")

SomeTitleHasText(page) ==
    \E i \in 1..Len(page) : IsTitle(page[i]) /\ strip(page[i].text) # <<>>

FirstTitleHasText(page) ==
    \E i \in 1..Len(page) :
        /\ IsTitle(page[i])
        /\ strip(page[i].text) # <<>>
        /\ \A j \in 1..(i - 1) : ~IsTitle(page[j])

\* C4 as stated: a record is returned if and only if the page text is non-empty, holds
\* no 'not found' marker and contains a title element whose trimmed text is non-empty.
C4_AnyTitle ==
    pc = "parsed" =>
        (parsed # None <=>
            (html # None /\ html[1] # <<>> /\ ~Marker(html[1]) /\ SomeTitleHasText(html[1])))

\* C4: a record is returned if and only if the page text is non-empty, holds no
\* 'not found' marker in any case, and the first title element of the page has
\* non-empty text after trimming; a returned record never has an empty title.
C4_FirstTitle ==
    pc = "parsed" =>
        /\ parsed # None <=>
              (html # None /\ html[1] # <<>> /\ ~Marker(html[1]) /\ FirstTitleHasText(html[1]))
        /\ parsed # None => parsed[1].title # <<>> /\ parsed[1].title = strip(parsed[1].title)

\* C4 witness: a blank title element ahead of a title element with text: no record
C4_Witness ==
    /\ pc = "parsed"
    /\ parsed = None
    /\ html # None
    /\ ~Marker(html[1])
    /\ SomeTitleHasText(html[1])

SlotPresent(page, i) ==
    \E x \in 1..Len(page) :
        IF i = 1 THEN MatchesAnchor(page[x], "linkSponsor") ELSE MatchesCoSponsor(page[x], i)

SlotText(page, i) ==
    LET x == CHOOSE y \in 1..Len(page) :
                 /\ IF i = 1 THEN MatchesAnchor(page[y], "linkSponsor")
                    ELSE MatchesCoSponsor(page[y], i)
                 /\ \A z \in 1..(y - 1) :
                        ~(IF i = 1 THEN MatchesAnchor(page[z], "linkSponsor")
                          ELSE MatchesCoSponsor(page[z], i))
    IN  strip(page[x].text)

\* slots 1..k are present and slot k + 1 is the first missing one
PresentPrefix(page) ==
    CHOOSE k \in 0..(MaxSlot + 1) :
        (\A i \in 1..k : SlotPresent(page, i)) /\ ~SlotPresent(page, k + 1)

\* C5: with the primary sponsor present, the sponsors extracted are the names of slots
\* 1..k in slot order, k + 1 being the first missing slot, for every k >= 1: probing
\* stops at the first missing slot and at no fixed slot number.
C5_AllSlotsUpToGap ==
    (pc = "parsed" /\ parsed # None) =>
        LET page == html[1]
            k == PresentPrefix(page)
        IN  k >= 1 => parsed[1].sponsors = join("; ", [i \in 1..k |-> SlotText(page, i)])

\* the action tables of the page whose last row offers at least n cells
EntriesWith(page, n) ==
    LET T == ActionTables(page)
    IN  {i \in 1..Len(T) :
            Len(T[i].rows) > 1 /\ Len(TdCells(T[i].rows[Len(T[i].rows)])) >= n}

MaxOf(S) == CHOOSE x \in S : \A y \in S : y <= x

\* cell n of the last row of the last entry in document order that has one
LastEntryCell(page, n) ==
    LET T == ActionTables(page)
        E == EntriesWith(page, n)
    IN  IF E = {} THEN <<>>
        ELSE LET t == T[MaxOf(E)]
             IN  CleanCell(TdCells(t.rows[Len(t.rows)])[n])

C9_FieldsOfOneEntry ==
    (pc = "parsed" /\ parsed # None) =>
        LET T == ActionTables(html[1])
            E == EntriesWith(html[1], 0)
            cells == TdCells(T[MaxOf(E)].rows[Len(T[MaxOf(E)].rows)])
        IN  IF E = {} THEN parsed[1].last_date = <<>> /\ parsed[1].status = <<>>
            ELSE /\ parsed[1].last_date = (IF Len(cells) >= 1 THEN CleanCell(cells[1]) ELSE <<>>)
                 /\ parsed[1].status = (IF Len(cells) >= 2 THEN CleanCell(cells[2]) ELSE <<>>)

====
